---------------------------- MODULE Spec2Model ----------------------------
(***************************************************************************)
(* Model of the allan-tools deviation / variance engine (src/src/lib.rs,   *)
(* src/src/tau.rs, src/src/utils.rs).                                      *)
(*                                                                         *)
(* Numbers.  f64 values are modelled as exact numbers:                     *)
(*   - samples are small integers;                                         *)
(*   - a tau is the integer numerator h of the rational h / TauDen, so     *)
(*     that taus strictly between 0 and 1 exist;                           *)
(*   - a computed value is a record [root, num, den]: the rational         *)
(*     num/den (den > 0, lowest terms) when root = FALSE and its square    *)
(*     root when root = TRUE; den = 0 is the f64 NaN (num = 0) or an       *)
(*     infinity (num # 0).                                                 *)
(* Rounding is not modelled.  usize arithmetic keeps its two build         *)
(* outcomes: with overflow checks a subtraction below zero, or a product   *)
(* or sum above usize::MAX, panics; without them it wraps.                 *)
(*                                                                         *)
(* The real-time core (RealTime) is modelled as its fields and the calls   *)
(* made on it.                                                             *)
(***************************************************************************)
EXTENDS Integers, Sequences, FiniteSets, TLC

VARIABLES data, data_bc, data_ca, taus, calc, is_fractional, overlapping, op, res,
          axis, tau_0, tau_m, rate, frame, core

vars == <<data, data_bc, data_ca, taus, calc, is_fractional, overlapping, op, res,
          axis, tau_0, tau_m, rate, frame, core>>

\* the arguments of the tau generator and of the utilities, and the frame of
\* a call of deviation that is followed step by step
gen_args == <<axis, tau_0, tau_m, rate>>

call_args == <<data, data_bc, data_ca, taus, calc, is_fractional, overlapping>>

---------------------------------------------------------------------------
(* Bounds of the model *)

\* longest sample sequence
MaxLen == 8
\* longest tau axis
MaxTaus == 2
\* largest tau, in whole samples
MaxTau == 3
\* a tau is a multiple of 1/TauDen
TauDen == 2
\* largest tau_m of the generator runs
MaxGen == 9
\* longest sample sequence and largest sample rate of the utility runs
MaxUtilLen == 4
MaxRate == 3
\* the count at which the f64 counter n of a loop followed step by step stops
\* growing (n + 1.0 = n; 2^53 on the target); above every count of a loop that
\* ends
MaxCount == 12

\* longest buffer and longest ladder of a real-time core: no call is made on a
\* core that holds more (a ladder that starts at 0 or has wrapped to 0 grows
\* at every call)
MaxBuf == 6
MaxLadder == 4

\* usize::MAX of the model; the target's is 2^64-1.  Every length, index and
\* tau of the model is far below either, so a wrapped difference is "huge" in
\* both.
UsizeMax == 2147483647

\* the least usize whose double overflows: (usize::MAX + 1) / 2, 2^63 on the
\* target
UsizeHalf == (UsizeMax - 1) \div 2 + 1

---------------------------------------------------------------------------
\* F applied to the value of v, and to the values of u and v: the operands are
\* evaluated once, as a `let` binding or an argument passed by value is
With(v, F(_)) == CHOOSE r \in {F(x) : x \in {v}} : TRUE

With2(u, v, F(_, _)) == CHOOSE r \in {F(x, y) : x \in {u}, y \in {v}} : TRUE

---------------------------------------------------------------------------
(* Exact arithmetic standing for f64 *)

Abs(x) == IF x < 0 THEN -x ELSE x

RECURSIVE GCD(_, _)
GCD(a, b) == IF b = 0 THEN a ELSE With(a % b, LAMBDA m : GCD(b, m))

\* the rational n/d in lowest terms with a positive denominator;
\* 0/0 is NaN, x/0 an infinity
Rat(n, d) ==
    With2(n, d, LAMBDA x, y :
    IF y = 0 THEN [num |-> IF x > 0 THEN 1 ELSE IF x < 0 THEN -1 ELSE 0, den |-> 0]
    ELSE With(GCD(Abs(x), Abs(y)), LAMBDA g :
         IF y < 0 THEN [num |-> -(x \div g), den |-> -(y \div g)]
         ELSE [num |-> x \div g, den |-> y \div g]))

RNaN == [num |-> 0, den |-> 0]

RIsNaN(a) == a.den = 0 /\ a.num = 0

RInt(n) == Rat(n, 1)

RMul(a, b) ==
    With2(a, b, LAMBDA x, y :
    IF RIsNaN(x) \/ RIsNaN(y) THEN RNaN
    ELSE IF x.den = 0 \/ y.den = 0
         THEN Rat(x.num * y.num, 0)
         ELSE Rat(x.num * y.num, x.den * y.den))

RDiv(a, b) ==
    With2(a, b, LAMBDA x, y :
    IF RIsNaN(x) \/ RIsNaN(y) THEN RNaN
    ELSE IF x.den = 0 THEN (IF y.den = 0 THEN RNaN ELSE Rat(x.num * (IF y.num < 0 THEN -1 ELSE 1), 0))
    ELSE IF y.den = 0 THEN Rat(0, 1)
    ELSE Rat(x.num * y.den, x.den * y.num))

RAdd(a, b) ==
    With2(a, b, LAMBDA x, y :
    IF RIsNaN(x) \/ RIsNaN(y) THEN RNaN
    ELSE IF x.den = 0 /\ y.den = 0 THEN (IF x.num = y.num THEN x ELSE RNaN)
    ELSE IF x.den = 0 THEN x
    ELSE IF y.den = 0 THEN y
    ELSE Rat(x.num * y.den + y.num * x.den, x.den * y.den))

RNeg(a) == With(a, LAMBDA x : [num |-> -x.num, den |-> x.den])

RSub(a, b) == RAdd(a, RNeg(b))

\* a value of the program: a rational, or the square root of one
Val(r) == With(r, LAMBDA x : [root |-> FALSE, num |-> x.num, den |-> x.den])

NaN == Val(RNaN)

IsNaN(v) == v.den = 0 /\ v.num = 0

RatOf(v) == With(v, LAMBDA x : [num |-> x.num, den |-> x.den])

\* x.powf(0.5) of a rational x: NaN below zero
Sqrt(r) ==
    With(r, LAMBDA x :
    IF RIsNaN(x) \/ x.num < 0 THEN NaN
    ELSE IF x.num = 0 \/ x.den = 0 THEN Val(x)
    ELSE [root |-> TRUE, num |-> x.num, den |-> x.den])

\* v * v
Square(v) ==
    With(v, LAMBDA x :
    IF x.root THEN Val(RatOf(x)) ELSE Val(RMul(RatOf(x), RatOf(x))))

\* v / r and v * r for a rational r > 0
VDiv(v, r) ==
    With2(v, r, LAMBDA x, y :
    IF x.root THEN Sqrt(RDiv(RatOf(x), RMul(y, y))) ELSE Val(RDiv(RatOf(x), y)))

VMul(v, r) ==
    With2(v, r, LAMBDA x, y :
    IF x.root THEN Sqrt(RMul(RatOf(x), RMul(y, y))) ELSE Val(RMul(RatOf(x), y)))

\* v / x.powf(0.5) for a value v >= 0 and a rational x >= 0
VDivSqrt(v, r) == Sqrt(RDiv(RatOf(Square(v)), r))

\* the f64 a tau numerator stands for
TauVal(h) == Rat(h, TauDen)

\* `tau as usize`: truncation toward zero, saturating at 0 below zero
TauAsUsize(h) == IF h <= 0 THEN 0 ELSE h \div TauDen

---------------------------------------------------------------------------
(* tau.rs *)

RECURSIVE tau_scan(_, _)
tau_scan(t, i) ==
    IF i > Len(t) THEN [status |-> "Ok", error |-> ""]
    ELSE IF t[i] < 0 THEN [status |-> "Err", error |-> "NegativeTauValue"]
    ELSE IF t[i] = 0 THEN [status |-> "Err", error |-> "NullTauValue"]
    ELSE IF i > 1 /\ t[i] <= t[i-1] THEN [status |-> "Err", error |-> "InvalidTauShape"]
    ELSE tau_scan(t, i + 1)

\* tau_sanity_checks with `<` for `<=` in the shape check
RECURSIVE tau_scan_nonstrict(_, _)
tau_scan_nonstrict(t, i) ==
    IF i > Len(t) THEN [status |-> "Ok", error |-> ""]
    ELSE IF t[i] < 0 THEN [status |-> "Err", error |-> "NegativeTauValue"]
    ELSE IF t[i] = 0 THEN [status |-> "Err", error |-> "NullTauValue"]
    ELSE IF i > 1 /\ t[i] < t[i-1] THEN [status |-> "Err", error |-> "InvalidTauShape"]
    ELSE tau_scan_nonstrict(t, i + 1)

tau_sanity_checks_nonstrict(t) == tau_scan_nonstrict(t, 1)

\* tau_sanity_checks with the shape check made before the sign checks
RECURSIVE tau_scan_shape_first(_, _)
tau_scan_shape_first(t, i) ==
    IF i > Len(t) THEN [status |-> "Ok", error |-> ""]
    ELSE IF i > 1 /\ t[i] <= t[i-1] THEN [status |-> "Err", error |-> "InvalidTauShape"]
    ELSE IF t[i] < 0 THEN [status |-> "Err", error |-> "NegativeTauValue"]
    ELSE IF t[i] = 0 THEN [status |-> "Err", error |-> "NullTauValue"]
    ELSE tau_scan_shape_first(t, i + 1)

tau_sanity_checks_shape_first(t) == tau_scan_shape_first(t, 1)

tau_sanity_checks(t) == tau_scan(t, 1)

\* the while loop of log_n_tau_generator, from tau with ret so far.  A
\* tau <= 0 that passes the guard passes it ever after (tau * base <= tau):
\* the loop pushes without end
RECURSIVE log_n_loop(_, _, _, _)
log_n_loop(tau, tau_max, base, ret) ==
    IF ~(tau <= tau_max) THEN [status |-> "Ok", error |-> "", v |-> ret]
    ELSE IF tau <= 0 THEN [status |-> "Diverge", error |-> "", v |-> <<>>]
    ELSE log_n_loop(tau * base, tau_max, base, Append(ret, tau))

\* log_n_tau_generator with `<` for `<=` in the loop guard
RECURSIVE log_n_loop_exclusive(_, _, _, _)
log_n_loop_exclusive(tau, tau_max, base, ret) ==
    IF ~(tau < tau_max) THEN [status |-> "Ok", error |-> "", v |-> ret]
    ELSE IF tau <= 0 THEN [status |-> "Diverge", error |-> "", v |-> <<>>]
    ELSE log_n_loop_exclusive(tau * base, tau_max, base, Append(ret, tau))

log_n_tau_generator_exclusive(t0, tm, base) == log_n_loop_exclusive(t0, tm, base, <<>>)

log_n_tau_generator(t0, tm, base) == log_n_loop(t0, tm, base, <<>>)

log2_tau_generator(t0, tm) == log_n_tau_generator(t0, tm, 2)

log10_tau_generator(t0, tm) == log_n_tau_generator(t0, tm, 10)

\* `tau as u32`: truncation toward zero, 0 below zero.  (The cast also
\* saturates at u32::MAX; every tau of the model is far below it.)
TauAsU32(h) == IF h <= 0 THEN 0 ELSE h \div TauDen

\* (a..b).map(f64::from).collect() of a half-open u32 range
u32_range(a, b) == [i \in 1..(IF b > a THEN b - a ELSE 0) |-> (a + i - 1) * TauDen]

\* the All axis with the range closed at tau_m
tau_generator_inclusive(ax, t0, tm) ==
    IF ax = "Octave" THEN log2_tau_generator(t0, tm)
    ELSE IF ax = "Decade" THEN log10_tau_generator(t0, tm)
    ELSE [status |-> "Ok", error |-> "", v |-> u32_range(TauAsU32(t0), TauAsU32(tm) + 1)]

tau_generator(ax, t0, tm) ==
    IF ax = "Octave" THEN log2_tau_generator(t0, tm)
    ELSE IF ax = "Decade" THEN log10_tau_generator(t0, tm)
    ELSE [status |-> "Ok", error |-> "", v |-> u32_range(TauAsU32(t0), TauAsU32(tm))]

---------------------------------------------------------------------------
(* utils.rs *)

\* data[j] with Rust's 0-based index
At(d, j) == d[j + 1]

\* a sequence of whole samples as the f64 values the utilities take
F64Seq(d) == [j \in 1..Len(d) |-> RInt(d[j])]

RECURSIVE cumsum_loop(_, _, _, _)
cumsum_loop(d, normalization, i, ret) ==
    IF i >= Len(d) THEN ret
    ELSE With(Append(ret, RMul(RAdd(At(ret, i - 1), At(d, i)), normalization)), LAMBDA r :
              cumsum_loop(d, normalization, i + 1, r))

\* cumsum(data, Some(normalization)), None being 1.0; data[0] of an empty
\* vector panics
cumsum(d, normalization) ==
    IF Len(d) = 0 THEN [status |-> "Panic", error |-> "index out of bounds", v |-> <<>>]
    ELSE [status |-> "Ok", error |-> "", v |-> cumsum_loop(d, normalization, 1, <<At(d, 0)>>)]

\* diff with the operands of the difference swapped
diff_reversed(d, normalization, oc) ==
    IF Len(d) = 0
    THEN [status |-> "Panic", v |-> <<>>,
          error |-> IF oc THEN "attempt to subtract with overflow" ELSE "capacity overflow"]
    ELSE [status |-> "Ok", error |-> "",
          v |-> [j \in 1..(Len(d) - 1) |-> RMul(RSub(d[j], d[j + 1]), normalization)]]

\* diff(data, Some(normalization)); the capacity data.len()-1 of an empty
\* vector panics, as an overflow with overflow checks and as a capacity
\* overflow without
diff(d, normalization, oc) ==
    IF Len(d) = 0
    THEN [status |-> "Panic", v |-> <<>>,
          error |-> IF oc THEN "attempt to subtract with overflow" ELSE "capacity overflow"]
    ELSE [status |-> "Ok", error |-> "",
          v |-> [j \in 1..(Len(d) - 1) |-> RMul(RSub(d[j + 1], d[j]), normalization)]]

\* fractionnal_integral(data, sample_rate): no mean is subtracted
fractionnal_integral(d, sample_rate) == cumsum(d, RDiv(RInt(1), sample_rate))

derivative(d, sample_rate, oc) == diff(d, sample_rate, oc)

\* the integral deviation takes of whole samples, at the sample rate 1.0 it
\* passes: the sums are whole
fractional_integral(d) ==
    With(fractionnal_integral(F64Seq(d), RInt(1)), LAMBDA r :
         [r EXCEPT !.v = [j \in 1..Len(r.v) |-> r.v[j].num]])

---------------------------------------------------------------------------
(* lib.rs: the estimators *)

Panic(msg) == [status |-> "Panic", error |-> msg, dev |-> NaN, err |-> NaN, n |-> 0, sum |-> 0]

NotEnoughSamples ==
    [status |-> "Err", error |-> "NotEnoughSamplesError", dev |-> NaN, err |-> NaN, n |-> 0, sum |-> 0]

Diverges == [status |-> "Diverge", error |-> "", dev |-> NaN, err |-> NaN, n |-> 0, sum |-> 0]

\* a - b on usize: with overflow checks (oc) a negative difference panics,
\* without them it wraps
usize_sub(a, b, oc) ==
    IF a >= b THEN [panic |-> FALSE, v |-> a - b]
    ELSE IF oc THEN [panic |-> TRUE, v |-> 0]
    ELSE [panic |-> FALSE, v |-> UsizeMax - (b - a - 1)]

\* the while loop of calc_adev with the last sample of a term subtracted
RECURSIVE adev_loop_minus(_, _, _, _, _, _, _)
adev_loop_minus(d, tau_u, stride, oc, i, n, sum) ==
    LET bound == usize_sub(Len(d), 2 * tau_u, oc) IN
    IF bound.panic THEN [st |-> "Panic", error |-> "attempt to subtract with overflow", n |-> n, sum |-> sum]
    ELSE IF ~(i < bound.v) THEN [st |-> "Ok", error |-> "", n |-> n, sum |-> sum]
    ELSE IF i + 2 * tau_u >= Len(d)
         THEN [st |-> "Panic", error |-> "index out of bounds", n |-> n, sum |-> sum]
    ELSE IF stride = 0
         THEN [st |-> "Diverge", error |-> "", n |-> n, sum |-> sum]
    ELSE LET term == At(d, i) - 2 * At(d, i + tau_u) - At(d, i + 2 * tau_u)
         IN  adev_loop_minus(d, tau_u, stride, oc, i + stride, n + 1, sum + term * term)

\* the while loop of calc_adev, from (i, n, sum)
RECURSIVE adev_loop(_, _, _, _, _, _, _)
adev_loop(d, tau_u, stride, oc, i, n, sum) ==
    LET bound == usize_sub(Len(d), 2 * tau_u, oc) IN
    IF bound.panic THEN [st |-> "Panic", error |-> "attempt to subtract with overflow", n |-> n, sum |-> sum]
    ELSE IF ~(i < bound.v) THEN [st |-> "Ok", error |-> "", n |-> n, sum |-> sum]
    ELSE IF i + 2 * tau_u >= Len(d)
         THEN [st |-> "Panic", error |-> "index out of bounds", n |-> n, sum |-> sum]
    ELSE IF stride = 0
         \* i never advances and the guard stays true
         THEN [st |-> "Diverge", error |-> "", n |-> n, sum |-> sum]
    ELSE LET term == At(d, i + 2 * tau_u) - 2 * At(d, i + tau_u) + At(d, i)
         IN  adev_loop(d, tau_u, stride, oc, i + stride, n + 1, sum + term * term)

\* calc_adev with stride 1 whatever `overlapping` is
calc_adev_always_overlapping(d, tau, sampling_rate, ovl, oc) ==
    LET tau_u == TauAsUsize(tau)
        lm1 == usize_sub(Len(d), 1, oc)
    IN  IF lm1.panic THEN Panic("attempt to subtract with overflow")
        ELSE IF tau_u > lm1.v \div 2 THEN NotEnoughSamples
        ELSE With(adev_loop(d, tau_u, 1, oc, 0, 0, 0), LAMBDA l :
             IF l.st = "Panic" THEN Panic(l.error)
             ELSE IF l.st = "Diverge" THEN Diverges
             ELSE LET dev0 == RDiv(RInt(l.sum), RInt(2))
                      dev == VDiv(VDiv(Sqrt(RDiv(dev0, RInt(l.n))), TauVal(tau)),
                                  RInt(sampling_rate))
                  IN  [status |-> "Ok", error |-> "", dev |-> dev,
                       err |-> VDivSqrt(dev, RInt(l.n)), n |-> l.n, sum |-> l.sum])

calc_adev(d, tau, sampling_rate, ovl, oc) ==
    LET tau_u == TauAsUsize(tau)
        stride == IF ovl THEN 1 ELSE TauAsUsize(tau)
        lm1 == usize_sub(Len(d), 1, oc)
    IN  IF lm1.panic THEN Panic("attempt to subtract with overflow")
        ELSE IF tau_u > lm1.v \div 2 THEN NotEnoughSamples
        ELSE With(adev_loop(d, tau_u, stride, oc, 0, 0, 0), LAMBDA l :
             IF l.st = "Panic" THEN Panic(l.error)
             ELSE IF l.st = "Diverge" THEN Diverges
             ELSE LET dev0 == RDiv(RInt(l.sum), RInt(2))
                      dev == VDiv(VDiv(Sqrt(RDiv(dev0, RInt(l.n))), TauVal(tau)),
                                  RInt(sampling_rate))
                  IN  [status |-> "Ok", error |-> "", dev |-> dev,
                       err |-> VDivSqrt(dev, RInt(l.n)), n |-> l.n, sum |-> l.sum])

\* the first while loop of calc_mdev, from (i, v)
RECURSIVE mdev_seed(_, _, _, _, _)
mdev_seed(d, tau_u, oc, i, v) ==
    LET bound == usize_sub(Len(d), 2 * tau_u, oc) IN
    IF bound.panic THEN [st |-> "Panic", error |-> "attempt to subtract with overflow", v |-> v]
    ELSE IF ~(i < bound.v /\ i < tau_u) THEN [st |-> "Ok", error |-> "", v |-> v]
    ELSE IF i + 2 * tau_u >= Len(d)
         THEN [st |-> "Panic", error |-> "index out of bounds", v |-> v]
    ELSE mdev_seed(d, tau_u, oc, i + 1,
                   v + At(d, i + 2 * tau_u) - 2 * At(d, i + tau_u) + At(d, i))

\* the second while loop of calc_mdev, from (i, v, n, sum)
RECURSIVE mdev_run(_, _, _, _, _, _, _)
mdev_run(d, tau_u, oc, i, v, n, sum) ==
    LET bound == usize_sub(Len(d), 3 * tau_u, oc) IN
    IF bound.panic THEN [st |-> "Panic", error |-> "attempt to subtract with overflow", n |-> n, sum |-> sum]
    ELSE IF ~(i < bound.v) THEN [st |-> "Ok", error |-> "", n |-> n, sum |-> sum]
    ELSE IF i + 3 * tau_u >= Len(d)
         THEN [st |-> "Panic", error |-> "index out of bounds", n |-> n, sum |-> sum]
    ELSE LET w == v + At(d, i + 3 * tau_u) - 3 * At(d, i + 2 * tau_u)
                    + 3 * At(d, i + tau_u) - At(d, i)
         IN  mdev_run(d, tau_u, oc, i + 1, w, n + 1, sum + w * w)

\* calc_mdev without the division of the sum by tau * tau
calc_mdev_one_tau_division(d, tau, sampling_rate, oc) ==
    LET tau_u == TauAsUsize(tau)
        lm1 == usize_sub(Len(d), 1, oc)
    IN  IF lm1.panic THEN Panic("attempt to subtract with overflow")
        ELSE IF tau_u > lm1.v \div 2 THEN NotEnoughSamples
        ELSE With(mdev_seed(d, tau_u, oc, 0, 0), LAMBDA s :
             IF s.st = "Panic" THEN Panic(s.error)
             ELSE With(mdev_run(d, tau_u, oc, 0, s.v, 1, s.v * s.v), LAMBDA l :
                  IF l.st = "Panic" THEN Panic(l.error)
                  ELSE LET dev0 == RDiv(RInt(l.sum), RInt(2))
                           dev == VDiv(VDiv(Sqrt(RDiv(dev0, RInt(l.n))), TauVal(tau)),
                                       RInt(sampling_rate))
                       IN  [status |-> "Ok", error |-> "", dev |-> dev,
                            err |-> VDivSqrt(dev, RInt(l.n)), n |-> l.n, sum |-> l.sum]))

calc_mdev(d, tau, sampling_rate, oc) ==
    LET tau_u == TauAsUsize(tau)
        lm1 == usize_sub(Len(d), 1, oc)
    IN  IF lm1.panic THEN Panic("attempt to subtract with overflow")
        ELSE IF tau_u > lm1.v \div 2 THEN NotEnoughSamples
        ELSE With(mdev_seed(d, tau_u, oc, 0, 0), LAMBDA s :
             IF s.st = "Panic" THEN Panic(s.error)
             ELSE With(mdev_run(d, tau_u, oc, 0, s.v, 1, s.v * s.v), LAMBDA l :
                  IF l.st = "Panic" THEN Panic(l.error)
                  ELSE LET dev0 == RDiv(RDiv(RDiv(RInt(l.sum), RInt(2)), TauVal(tau)), TauVal(tau))
                           dev == VDiv(VDiv(Sqrt(RDiv(dev0, RInt(l.n))), TauVal(tau)),
                                       RInt(sampling_rate))
                       IN  [status |-> "Ok", error |-> "", dev |-> dev,
                            err |-> VDivSqrt(dev, RInt(l.n)), n |-> l.n, sum |-> l.sum]))

\* calc_tdev scaling the error bar as it scales the value
calc_tdev_scaled_err(d, tau, sampling_rate, oc) ==
    With(calc_mdev(d, tau, sampling_rate, oc), LAMBDA m :
         IF m.status # "Ok" THEN m
         ELSE [m EXCEPT !.dev = VDivSqrt(VMul(m.dev, TauVal(tau)), RInt(3)),
                        !.err = VDivSqrt(VMul(m.err, TauVal(tau)), RInt(3))])

calc_tdev(d, tau, sampling_rate, oc) ==
    With(calc_mdev(d, tau, sampling_rate, oc), LAMBDA m :
         IF m.status # "Ok" THEN m
         ELSE [m EXCEPT !.dev = VDivSqrt(VMul(m.dev, TauVal(tau)), RInt(3))])

---------------------------------------------------------------------------
(* lib.rs: the engine *)

Failed(st, msg) == [status |-> st, error |-> msg, devs |-> <<>>, errs |-> <<>>]

\* estimate with the Time branch calling the Modified estimator
estimate_time_as_modified(d, tau, c, sampling_rate, ovl, oc) ==
    IF c = "Allan" THEN calc_adev(d, tau, sampling_rate, ovl, oc)
    ELSE calc_mdev(d, tau, sampling_rate, oc)

\* the estimator `calc` selects (lib.rs match calc)
estimate(d, tau, c, sampling_rate, ovl, oc) ==
    IF c = "Allan" THEN calc_adev(d, tau, sampling_rate, ovl, oc)
    ELSE IF c = "Modified" THEN calc_mdev(d, tau, sampling_rate, oc)
    ELSE calc_tdev(d, tau, sampling_rate, oc)

\* the for loop of deviation, from index i (1-based) with devs, errs so far
RECURSIVE deviation_loop(_, _, _, _, _, _, _, _, _)
deviation_loop(d, t, c, sampling_rate, ovl, oc, i, devs, errs) ==
    IF i > Len(t) THEN [status |-> "Ok", error |-> "", devs |-> devs, errs |-> errs]
    ELSE With(estimate(d, t[i], c, sampling_rate, ovl, oc), LAMBDA e :
         IF e.status = "Ok"
         THEN With([devs |-> Append(devs, e.dev), errs |-> Append(errs, e.err)], LAMBDA s :
                   deviation_loop(d, t, c, sampling_rate, ovl, oc, i + 1, s.devs, s.errs))
         ELSE IF e.status = "Err"
              \* else { break }
              THEN [status |-> "Ok", error |-> "", devs |-> devs, errs |-> errs]
              ELSE Failed(e.status, e.error))

\* deviation with the preprocessing done before the axis is validated
deviation_preprocess_first(d, t, c, sampling_rate, frac, ovl, oc) ==
    With(IF frac THEN fractional_integral(d)
         ELSE [status |-> "Ok", error |-> "", v |-> d], LAMBDA x :
    IF x.status # "Ok" THEN Failed(x.status, x.error)
    ELSE With(tau_sanity_checks(t), LAMBDA chk :
         IF chk.status # "Ok" THEN Failed("Err", chk.error)
         ELSE deviation_loop(x.v, t, c, sampling_rate, ovl, oc, 1, <<>>, <<>>)))

deviation(d, t, c, sampling_rate, frac, ovl, oc) ==
    With(tau_sanity_checks(t), LAMBDA chk :
    IF chk.status # "Ok" THEN Failed("Err", chk.error)
    ELSE With(IF frac THEN fractional_integral(d)
              ELSE [status |-> "Ok", error |-> "", v |-> d], LAMBDA x :
         IF x.status # "Ok" THEN Failed(x.status, x.error)
         ELSE deviation_loop(x.v, t, c, sampling_rate, ovl, oc, 1, <<>>, <<>>)))

\* variance without the squaring loop
variance_unsquared(d, t, c, sampling_rate, frac, ovl, oc) ==
    deviation(d, t, c, sampling_rate, frac, ovl, oc)

variance(d, t, c, sampling_rate, frac, ovl, oc) ==
    With(deviation(d, t, c, sampling_rate, frac, ovl, oc), LAMBDA r :
    IF r.status # "Ok" THEN r
    ELSE [r EXCEPT !.devs = [i \in 1..Len(r.devs) |-> Square(r.devs[i])]])

HatFailed(st, msg) ==
    [status |-> st, error |-> msg,
     a |-> <<>>, err_a |-> <<>>, b |-> <<>>, err_b |-> <<>>, c |-> <<>>, err_c |-> <<>>]

\* x - y + z, without the factor 0.5
half_sum_unhalved(x, y, z) == RAdd(RSub(RatOf(x), RatOf(y)), RatOf(z))

\* 0.5 * (x - y + z)
half_sum(x, y, z) == RMul(Rat(1, 2), RAdd(RSub(RatOf(x), RatOf(y)), RatOf(z)))

\* three_cornered_hat returning the error bars of the (A,B) measurement for
\* all three clocks
three_cornered_hat_err_ab(d_ab, d_bc, d_ca, t, sample_rate, frac, ovl, c, oc) ==
    With(variance(d_ab, t, c, sample_rate, frac, ovl, oc), LAMBDA ab :
    IF ab.status # "Ok" THEN HatFailed(ab.status, ab.error)
    ELSE With(variance(d_bc, t, c, sample_rate, frac, ovl, oc), LAMBDA bc :
    IF bc.status # "Ok" THEN HatFailed(bc.status, bc.error)
    ELSE With(variance(d_ca, t, c, sample_rate, frac, ovl, oc), LAMBDA ca :
    IF ca.status # "Ok" THEN HatFailed(ca.status, ca.error)
    ELSE IF Len(ab.devs) > Len(bc.devs) \/ Len(ab.devs) > Len(ca.devs)
         THEN HatFailed("Panic", "index out of bounds")
    ELSE LET k == Len(ab.devs) IN
         [status |-> "Ok", error |-> "",
          a |-> [i \in 1..k |-> Sqrt(half_sum(ab.devs[i], bc.devs[i], ca.devs[i]))],
          err_a |-> ab.errs,
          b |-> [i \in 1..k |-> Sqrt(half_sum(bc.devs[i], ca.devs[i], ab.devs[i]))],
          err_b |-> ab.errs,
          c |-> [i \in 1..k |-> Sqrt(half_sum(ca.devs[i], ab.devs[i], bc.devs[i]))],
          err_c |-> ab.errs])))

three_cornered_hat(d_ab, d_bc, d_ca, t, sample_rate, frac, ovl, c, oc) ==
    With(variance(d_ab, t, c, sample_rate, frac, ovl, oc), LAMBDA ab :
    IF ab.status # "Ok" THEN HatFailed(ab.status, ab.error)
    ELSE With(variance(d_bc, t, c, sample_rate, frac, ovl, oc), LAMBDA bc :
    IF bc.status # "Ok" THEN HatFailed(bc.status, bc.error)
    ELSE With(variance(d_ca, t, c, sample_rate, frac, ovl, oc), LAMBDA ca :
    IF ca.status # "Ok" THEN HatFailed(ca.status, ca.error)
    ELSE IF Len(ab.devs) > Len(bc.devs) \/ Len(ab.devs) > Len(ca.devs)
         \* var_bc[i] or var_ca[i] past the end of a shorter sequence
         THEN HatFailed("Panic", "index out of bounds")
    ELSE LET k == Len(ab.devs) IN
         [status |-> "Ok", error |-> "",
          a |-> [i \in 1..k |-> Sqrt(half_sum(ab.devs[i], bc.devs[i], ca.devs[i]))],
          err_a |-> ab.errs,
          b |-> [i \in 1..k |-> Sqrt(half_sum(bc.devs[i], ca.devs[i], ab.devs[i]))],
          err_b |-> bc.errs,
          c |-> [i \in 1..k |-> Sqrt(half_sum(ca.devs[i], ab.devs[i], bc.devs[i]))],
          err_c |-> ca.errs])))

---------------------------------------------------------------------------
(* Inputs *)

Calcs == {"Allan", "Modified", "Time"}

SeqsUpTo(S, n) == UNION {[1..k -> S] : k \in 0..n}

\* tau axes for the validator: every sequence of up to MaxTaus+1 taus between
\* -1 and MaxTau in steps of 1/TauDen, and the axes the documentation names
ExampleAxes ==
    {<<TauDen, 2 * TauDen, 4 * TauDen, 8 * TauDen>>, <<TauDen, TauDen, 2 * TauDen>>,
     <<TauDen, -2 * TauDen, 3 * TauDen>>, <<0, TauDen, 2 * TauDen>>}

ValidatorAxes == SeqsUpTo((-TauDen)..(MaxTau * TauDen), MaxTaus + 1) \cup ExampleAxes

\* taus for the engine: one negative, zero, one below a sample, and the whole
\* numbers of samples up to MaxTau
EngineTaus == {-1, 0, 1} \cup {k * TauDen : k \in 1..MaxTau}

EngineAxes == SeqsUpTo(EngineTaus, MaxTaus)

\* the sample values of the estimator runs
Samples == {0, 1}

\* every sequence of up to MaxLen samples
AllData == SeqsUpTo(Samples, MaxLen)

\* two fixed sample patterns; the engine is run on their prefixes
NoiseA == <<1, 0, 0, 1, 1, 1, 0, 1, 0, 0, 1, 0>>

NoiseB == <<0, 2, 1, 1, 3, 0, 2, 2, 1, 0, 3, 1>>

DataPool == {SubSeq(NoiseA, 1, k) : k \in 0..MaxLen} \cup {SubSeq(NoiseB, 1, k) : k \in 0..MaxLen}

HatPool == {SubSeq(NoiseB, 1, k) : k \in {0, MaxLen - 1, MaxLen}}

\* the affine sequences a + b*i of up to MaxLen samples
AffinePool ==
    {[j \in 1..k |-> a + b * (j - 1)] : k \in 0..MaxLen, a \in {0, 3}, b \in {-1, 0, 2}}

\* the sample sequences of the utility runs
UtilData == SeqsUpTo({-1, 1, 2}, MaxUtilLen)

\* pairwise measurements of different lengths: two whose overlapping Allan
\* variances at tau = 1 are 4 and 9, and two prefixes of the sample patterns
HatMixPool ==
    {<<0, 0, 4, 8>>, <<0, 0, 6, 12>>, SubSeq(NoiseB, 1, MaxLen - 3), SubSeq(NoiseA, 1, MaxLen)}

\* the data of the calls followed step by step
RunPool == {SubSeq(NoiseA, 1, k) : k \in {0, 1, 2, MaxLen - 3, MaxLen}}

NoResult == [status |-> "none", error |-> ""]

---------------------------------------------------------------------------
(* The real-time core (lib.rs, RealTime).  A core is the struct's fields,    *)
(* with the build profile oc of the program that holds it and a status that  *)
(* turns to "panic" when a call on it panics.                                *)

\* 2 * a and a + 1 on usize: with overflow checks (oc) a result above
\* usize::MAX panics, without them it wraps
usize_twice(a, oc) ==
    IF a < UsizeHalf THEN [panic |-> FALSE, v |-> 2 * a]
    ELSE IF oc THEN [panic |-> TRUE, v |-> 0]
    ELSE [panic |-> FALSE, v |-> 2 * (a - UsizeHalf)]

usize_inc(a, oc) ==
    IF a < UsizeMax THEN [panic |-> FALSE, v |-> a + 1]
    ELSE IF oc THEN [panic |-> TRUE, v |-> 0]
    ELSE [panic |-> FALSE, v |-> 0]

\* no core yet
NoCore ==
    [status |-> "none", oc |-> FALSE, tau0 |-> 0, buffer |-> <<>>, taus |-> <<>>, devs |-> <<>>]

\* RealTime::new
new(t0) ==
    [status |-> "ok", oc |-> FALSE, tau0 |-> t0, buffer |-> <<>>, taus |-> <<t0>>, devs |-> <<>>]

\* self.taus[self.taus.len()-1]: on an empty ladder the index underflows,
\* which panics at once with overflow checks and as an index out of bounds
\* without them
last_tau(c) ==
    LET last == usize_sub(Len(c.taus), 1, c.oc) IN
    IF last.panic \/ last.v >= Len(c.taus) THEN [panic |-> TRUE, v |-> 0]
    ELSE [panic |-> FALSE, v |-> At(c.taus, last.v)]

\* RealTime::new_tau: buffer.len() >= 2*taus[last]+1
new_tau(c) ==
    LET t == last_tau(c) IN
    IF t.panic THEN [panic |-> TRUE, v |-> FALSE]
    ELSE LET twice == usize_twice(t.v, c.oc) IN
         IF twice.panic THEN [panic |-> TRUE, v |-> FALSE]
         ELSE LET bound == usize_inc(twice.v, c.oc) IN
              IF bound.panic THEN [panic |-> TRUE, v |-> FALSE]
              ELSE [panic |-> FALSE, v |-> Len(c.buffer) >= bound.v]

\* self.taus.push(self.taus[self.taus.len()-1] * 2)
push_tau(c) ==
    LET t == last_tau(c) IN
    IF t.panic THEN [c EXCEPT !.status = "panic"]
    ELSE LET twice == usize_twice(t.v, c.oc) IN
         IF twice.panic THEN [c EXCEPT !.status = "panic"]
         ELSE [c EXCEPT !.taus = Append(@, twice.v)]

\* if self.new_tau() { self.taus.push(self.taus[self.taus.len()-1] * 2) }
grow_taus(c) ==
    LET nt == new_tau(c) IN
    IF nt.panic THEN [c EXCEPT !.status = "panic"]
    ELSE IF nt.v THEN push_tau(c)
    ELSE c

\* RealTime::push
push(c, sample) == grow_taus([c EXCEPT !.buffer = Append(@, sample)])

\* RealTime::push_n: every sample is appended, then the ladder is tested once
push_n(c, samples) == grow_taus([c EXCEPT !.buffer = @ \o samples])

\* RealTime::get: (taus, devs, errs), errs a new empty vector
get(c) == <<c.taus, c.devs, <<>>>>

\* RealTime::reset
reset(c) == [c EXCEPT !.buffer = <<>>, !.taus = <<>>, !.devs = <<>>]


\* the frame of deviation before the call
NoFrame ==
    [pc |-> "idle", idx |-> 0, i |-> 0, n |-> 0, sum |-> 0,
     devs |-> <<>>, errs |-> <<>>, x |-> <<>>, oc |-> FALSE]

\* the generator and utility arguments, and the frame, of a run that does not
\* use them
NoGenArgs ==
    axis = "Octave" /\ tau_0 = TauDen /\ tau_m = TauDen /\ rate = 1 /\ frame = NoFrame /\ core = NoCore

\* the kinds of tau axis, and the generator runs (axis, tau_0, tau_m): every
\* kind on every pair of multiples of 1/TauDen from -1 up to MaxTau and
\* MaxGen, and the two documented calls
TauAxes == {"Octave", "Decade", "All"}

GenRuns ==
    (TauAxes \X ((-TauDen)..(MaxTau * TauDen)) \X ((-TauDen)..(MaxGen * TauDen)))
    \cup {<<"Octave", TauDen, 65536 * TauDen>>, <<"Decade", TauDen, 10000 * TauDen>>}

---------------------------------------------------------------------------
(* Operations.  Each call is made once, on the inputs Init drew; the build   *)
(* profile (overflow checks on or off) is chosen with the call.              *)

Validate ==
    /\ op = "none"
    /\ op' = "tau_sanity_checks"
    /\ res' = tau_sanity_checks(taus)
    /\ UNCHANGED <<call_args, gen_args, frame, core>>

CallAdev ==
    /\ op = "none"
    /\ \E oc \in BOOLEAN :
          res' = calc_adev(data, taus[1], 1, overlapping, oc)
    /\ op' = "calc_adev"
    /\ UNCHANGED <<call_args, gen_args, frame, core>>

CallMdev ==
    /\ op = "none"
    /\ \E oc \in BOOLEAN : res' = calc_mdev(data, taus[1], 1, oc)
    /\ op' = "calc_mdev"
    /\ UNCHANGED <<call_args, gen_args, frame, core>>

CallTdev ==
    /\ op = "none"
    /\ \E oc \in BOOLEAN : res' = calc_tdev(data, taus[1], 1, oc)
    /\ op' = "calc_tdev"
    /\ UNCHANGED <<call_args, gen_args, frame, core>>

Deviation ==
    /\ op = "none"
    /\ \E oc \in BOOLEAN :
          res' = deviation(data, taus, calc, 1, is_fractional, overlapping, oc)
    /\ op' = "deviation"
    /\ UNCHANGED <<call_args, gen_args, frame, core>>

Variance ==
    /\ op = "none"
    /\ \E oc \in BOOLEAN :
          res' = variance(data, taus, calc, 1, is_fractional, overlapping, oc)
    /\ op' = "variance"
    /\ UNCHANGED <<call_args, gen_args, frame, core>>

ThreeCorneredHat ==
    /\ op = "none"
    /\ \E oc \in BOOLEAN :
          res' = three_cornered_hat(data, data_bc, data_ca, taus, 1,
                                    is_fractional, overlapping, calc, oc)
    /\ op' = "three_cornered_hat"
    /\ UNCHANGED <<call_args, gen_args, frame, core>>

Generate ==
    /\ op = "none"
    /\ op' = "tau_generator"
    /\ res' = tau_generator(axis, tau_0, tau_m)
    /\ UNCHANGED <<call_args, gen_args, frame, core>>

\* The utilities.  `after` is the call whose result the call was applied to,
\* "none" for a call on the data.
Cumsum ==
    /\ op = "none"
    /\ op' = "cumsum"
    /\ res' = cumsum(F64Seq(data), RInt(1)) @@ [after |-> "none"]
    /\ UNCHANGED <<call_args, gen_args, frame, core>>

FractionnalIntegral ==
    /\ op = "none"
    /\ op' = "fractionnal_integral"
    /\ res' = fractionnal_integral(F64Seq(data), RInt(rate)) @@ [after |-> "none"]
    /\ UNCHANGED <<call_args, gen_args, frame, core>>

\* the sequence a difference is taken of: the data, or the integral just made
DiffArg == IF op = "none" THEN F64Seq(data) ELSE res.v

Diff ==
    /\ op = "none" \/ (op \in {"cumsum", "fractionnal_integral"} /\ res.status = "Ok")
    /\ op' = "diff"
    /\ \E oc \in BOOLEAN : res' = diff(DiffArg, RInt(1), oc) @@ [after |-> op]
    /\ UNCHANGED <<call_args, gen_args, frame, core>>

Derivative ==
    /\ op = "none" \/ (op \in {"cumsum", "fractionnal_integral"} /\ res.status = "Ok")
    /\ op' = "derivative"
    /\ \E oc \in BOOLEAN : res' = derivative(DiffArg, RInt(rate), oc) @@ [after |-> op]
    /\ UNCHANGED <<call_args, gen_args, frame, core>>

\* deviation followed step by step: the call, each turn of the for loop over
\* the axis, and each test and each body of the while loop of calc_adev.  frame.idx is the
\* index of the tau at hand, frame.x the preprocessed data, (i, n, sum) the
\* locals of calc_adev.
Return(r) == frame' = [frame EXCEPT !.pc = "done"] /\ res' = r

EnterDeviation ==
    /\ op = "none" /\ frame.pc = "idle"
    /\ op' = "deviation"
    /\ \E oc \in BOOLEAN :
          LET chk == tau_sanity_checks(taus)
              x == IF is_fractional THEN fractional_integral(data)
                   ELSE [status |-> "Ok", error |-> "", v |-> data]
          IN  IF chk.status # "Ok" THEN Return(Failed("Err", chk.error))
              ELSE IF x.status # "Ok" THEN Return(Failed(x.status, x.error))
              ELSE /\ frame' = [NoFrame EXCEPT !.pc = "for", !.idx = 1, !.x = x.v, !.oc = oc]
                   /\ res' = res
    /\ UNCHANGED <<call_args, gen_args, core>>

\* one turn of `for i in 0..taus.len()`, up to the while loop of calc_adev
ForTau ==
    /\ frame.pc = "for"
    /\ IF frame.idx > Len(taus)
       THEN Return([status |-> "Ok", error |-> "", devs |-> frame.devs, errs |-> frame.errs])
       ELSE IF calc = "Allan"
       THEN LET lm1 == usize_sub(Len(frame.x), 1, frame.oc) IN
            IF lm1.panic THEN Return(Failed("Panic", "attempt to subtract with overflow"))
            ELSE IF TauAsUsize(taus[frame.idx]) > lm1.v \div 2
                 THEN Return([status |-> "Ok", error |-> "",
                              devs |-> frame.devs, errs |-> frame.errs])
                 ELSE /\ frame' = [frame EXCEPT !.pc = "while", !.i = 0, !.n = 0, !.sum = 0]
                      /\ res' = res
       ELSE LET e == estimate(frame.x, taus[frame.idx], calc, 1, overlapping, frame.oc) IN
            IF e.status = "Ok"
            THEN /\ frame' = [frame EXCEPT !.idx = @ + 1, !.devs = Append(@, e.dev),
                                           !.errs = Append(@, e.err)]
                 /\ res' = res
            ELSE IF e.status = "Err"
                 THEN Return([status |-> "Ok", error |-> "",
                              devs |-> frame.devs, errs |-> frame.errs])
                 ELSE Return(Failed(e.status, e.error))
    /\ UNCHANGED <<call_args, gen_args, op, core>>

\* the estimate calc_adev returns after its loop
adev_finish(tau, sampling_rate, n, sum) ==
    LET dev0 == RDiv(RInt(sum), RInt(2))
        dev == VDiv(VDiv(Sqrt(RDiv(dev0, RInt(n))), TauVal(tau)), RInt(sampling_rate))
    IN  [dev |-> dev, err |-> VDivSqrt(dev, RInt(n))]

\* one test of `while i < data.len() - 2*tau_u`: into the body, or out of
\* the loop with the estimate pushed
WhileAdev ==
    /\ frame.pc = "while"
    /\ LET tau == taus[frame.idx]
           bound == usize_sub(Len(frame.x), 2 * TauAsUsize(tau), frame.oc)
       IN  IF bound.panic THEN Return(Failed("Panic", "attempt to subtract with overflow"))
           ELSE IF frame.i < bound.v
                THEN frame' = [frame EXCEPT !.pc = "body"] /\ res' = res
                ELSE LET e == adev_finish(tau, 1, frame.n, frame.sum) IN
                     /\ frame' = [frame EXCEPT !.pc = "for", !.idx = @ + 1,
                                               !.devs = Append(@, e.dev),
                                               !.errs = Append(@, e.err)]
                     /\ res' = res
    /\ UNCHANGED <<call_args, gen_args, op, core>>

\* the body of the while loop: one term added, n counted, i advanced by the
\* stride.  n is an f64: it stops growing where n + 1.0 = n
BodyAdev ==
    /\ frame.pc = "body"
    /\ LET tau_u == TauAsUsize(taus[frame.idx])
           stride == IF overlapping THEN 1 ELSE tau_u
       IN  IF frame.i + 2 * tau_u >= Len(frame.x)
           THEN Return(Failed("Panic", "index out of bounds"))
           ELSE LET term == At(frame.x, frame.i + 2 * tau_u) - 2 * At(frame.x, frame.i + tau_u)
                            + At(frame.x, frame.i)
                IN  /\ frame' = [frame EXCEPT
                                   !.pc = "while",
                                   !.i = @ + stride,
                                   !.n = IF @ >= MaxCount THEN @ ELSE @ + 1,
                                   !.sum = @ + term * term]
                    /\ res' = res
    /\ UNCHANGED <<call_args, gen_args, op, core>>

\* The calls on a real-time core.  data is the log of every sample handed to
\* the core since it was built; res keeps the length of the ladder before the
\* call, whether the core was ever reset, and what get returned.
core_idle == <<data_bc, data_ca, taus, calc, is_fractional, overlapping, gen_args, frame>>

CoreResult(c, before, was_reset, out) ==
    [status |-> IF c.status = "panic" THEN "Panic" ELSE "Ok", error |-> "",
     taus_before |-> before, was_reset |-> was_reset, out |-> out]

NoCall == [status |-> "none", error |-> "", taus_before |-> 0, was_reset |-> FALSE, out |-> <<>>]

Push ==
    /\ core.status = "ok"
    /\ Len(core.buffer) < MaxBuf /\ Len(core.taus) < MaxLadder
    /\ \E sample \in Samples :
          /\ core' = push(core, sample)
          /\ data' = Append(data, sample)
    /\ op' = "push"
    /\ res' = CoreResult(core', Len(core.taus), res.was_reset, <<>>)
    /\ UNCHANGED core_idle

PushN ==
    /\ core.status = "ok"
    /\ Len(core.taus) < MaxLadder
    /\ \E samples \in SeqsUpTo(Samples, MaxBuf - Len(core.buffer)) :
          /\ core' = push_n(core, samples)
          /\ data' = data \o samples
    /\ op' = "push_n"
    /\ res' = CoreResult(core', Len(core.taus), res.was_reset, <<>>)
    /\ UNCHANGED core_idle

Get ==
    /\ core.status = "ok"
    /\ op' = "get"
    /\ res' = CoreResult(core, Len(core.taus), res.was_reset, get(core))
    /\ UNCHANGED <<core, data, core_idle>>

Reset ==
    /\ core.status = "ok"
    /\ core' = reset(core)
    /\ op' = "reset"
    /\ res' = CoreResult(core', Len(core.taus), TRUE, <<>>)
    /\ UNCHANGED <<data, core_idle>>

---------------------------------------------------------------------------
(* Specifications *)

\* the validator alone, on every axis of ValidatorAxes
InitTau ==
    /\ taus \in ValidatorAxes
    /\ data = <<>> /\ data_bc = <<>> /\ data_ca = <<>>
    /\ calc = "Allan" /\ is_fractional = FALSE /\ overlapping = FALSE
    /\ NoGenArgs
    /\ op = "none" /\ res = NoResult

NextTau == Validate

SpecTau == InitTau /\ [][NextTau]_vars

\* one estimator on one tau > 0 (the estimators are private: the engine calls
\* them on validated axes only)
InitEst ==
    /\ data \in AllData
    /\ \E h \in 1..(MaxTau * TauDen) : taus = <<h>>
    /\ overlapping \in BOOLEAN
    /\ data_bc = <<>> /\ data_ca = <<>>
    /\ calc = "Allan" /\ is_fractional = FALSE
    /\ NoGenArgs
    /\ op = "none" /\ res = NoResult

NextEst == CallAdev \/ CallMdev \/ CallTdev

SpecEst == InitEst /\ [][NextEst]_vars

\* deviation and variance
Init ==
    /\ data \in DataPool
    /\ taus \in EngineAxes
    /\ calc \in Calcs
    /\ is_fractional \in BOOLEAN
    /\ overlapping \in BOOLEAN
    /\ data_bc = <<>> /\ data_ca = <<>>
    /\ NoGenArgs
    /\ op = "none" /\ res = NoResult

Next == Deviation \/ Variance

Spec == Init /\ [][Next]_vars

\* the three public entry points
InitHat ==
    /\ data \in HatPool /\ data_bc \in HatPool /\ data_ca \in HatPool
    /\ taus \in EngineAxes
    /\ calc \in Calcs
    /\ is_fractional \in BOOLEAN
    /\ overlapping \in BOOLEAN
    /\ NoGenArgs
    /\ op = "none" /\ res = NoResult

NextHat == Deviation \/ Variance \/ ThreeCorneredHat

SpecHat == InitHat /\ [][NextHat]_vars

\* the tau generator alone
InitGen ==
    /\ \E g \in GenRuns : axis = g[1] /\ tau_0 = g[2] /\ tau_m = g[3]
    /\ rate = 1 /\ frame = NoFrame /\ core = NoCore
    /\ data = <<>> /\ data_bc = <<>> /\ data_ca = <<>> /\ taus = <<>>
    /\ calc = "Allan" /\ is_fractional = FALSE /\ overlapping = FALSE
    /\ op = "none" /\ res = NoResult

NextGen == Generate

SpecGen == InitGen /\ [][NextGen]_vars

\* deviation and variance of affine data
InitAffine ==
    /\ data \in AffinePool
    /\ taus \in EngineAxes
    /\ calc \in Calcs
    /\ is_fractional \in BOOLEAN
    /\ overlapping \in BOOLEAN
    /\ data_bc = <<>> /\ data_ca = <<>>
    /\ NoGenArgs
    /\ op = "none" /\ res = NoResult

NextAffine == Deviation \/ Variance

SpecAffine == InitAffine /\ [][NextAffine]_vars

\* the utilities: an integral, a difference, or a difference of an integral
InitUtils ==
    /\ data \in UtilData
    /\ rate \in 1..MaxRate
    /\ axis = "Octave" /\ tau_0 = TauDen /\ tau_m = TauDen /\ frame = NoFrame /\ core = NoCore
    /\ data_bc = <<>> /\ data_ca = <<>> /\ taus = <<>>
    /\ calc = "Allan" /\ is_fractional = FALSE /\ overlapping = FALSE
    /\ op = "none" /\ res = NoResult

NextUtils == Cumsum \/ FractionnalIntegral \/ Diff \/ Derivative

SpecUtils == InitUtils /\ [][NextUtils]_vars

\* three_cornered_hat on measurements of different lengths
InitHatMix ==
    /\ data \in HatMixPool /\ data_bc \in HatMixPool /\ data_ca \in HatMixPool
    /\ taus \in EngineAxes
    /\ calc \in Calcs
    /\ is_fractional \in BOOLEAN
    /\ overlapping \in BOOLEAN
    /\ NoGenArgs
    /\ op = "none" /\ res = NoResult

NextHatMix == ThreeCorneredHat

SpecHatMix == InitHatMix /\ [][NextHatMix]_vars

\* one call of deviation followed step by step; a call that has started keeps
\* running
InitRun ==
    /\ data \in RunPool
    /\ taus \in EngineAxes
    /\ calc \in Calcs
    /\ is_fractional \in BOOLEAN
    /\ overlapping \in BOOLEAN
    /\ data_bc = <<>> /\ data_ca = <<>>
    /\ NoGenArgs
    /\ op = "none" /\ res = NoResult

NextRun == EnterDeviation \/ ForTau \/ WhileAdev \/ BodyAdev

SpecRun == InitRun /\ [][NextRun]_vars /\ WF_vars(NextRun)

\* a real-time core built by RealTime::new under either build profile, on a
\* sampling period that is small, or at or above the least one whose double
\* overflows, and every sequence of calls on it
Tau0s == {0, 1, 2, 3, UsizeHalf, UsizeMax}

InitCore ==
    /\ core \in {[new(t0) EXCEPT !.oc = oc] : t0 \in Tau0s, oc \in BOOLEAN}
    /\ data = <<>> /\ data_bc = <<>> /\ data_ca = <<>>
    /\ taus = <<>>
    /\ calc = "Allan" /\ is_fractional = FALSE /\ overlapping = FALSE
    /\ axis = "Octave" /\ tau_0 = TauDen /\ tau_m = TauDen /\ rate = 1 /\ frame = NoFrame
    /\ op = "none" /\ res = NoCall

NextCore == Push \/ PushN \/ Get \/ Reset

SpecCore == InitCore /\ [][NextCore]_vars

---------------------------------------------------------------------------
(* Claims *)

\* element i of axis t breaks the axis invariant
BadTau(t, i) == t[i] <= 0 \/ (i > 1 /\ t[i] <= t[i-1])

AxisValid(t) == \A i \in 1..Len(t) : ~BadTau(t, i)

\* the first element of t, in axis order, that breaks the invariant
FirstBad(t) == CHOOSE i \in 1..Len(t) : BadTau(t, i) /\ \A j \in 1..(i-1) : ~BadTau(t, j)

\* the error of one bad element: its sign first, then its step
KindOf(t, i) ==
    IF t[i] < 0 THEN "NegativeTauValue"
    ELSE IF t[i] = 0 THEN "NullTauValue"
    ELSE "InvalidTauShape"

\* C1: tau_sanity_checks returns Ok exactly for the axes whose elements are
\* all > 0 and each strictly greater than its predecessor.
C1_ValidIffPositiveIncreasing ==
    op = "tau_sanity_checks" =>
        (res.status = "Ok" <=>
            \A i \in 1..Len(taus) : taus[i] > 0 /\ (i > 1 => taus[i] > taus[i-1]))

\* the documented axes [1,1,2], [1,-2,3], [0,1,2] were rejected
C1_Witness ==
    /\ op = "tau_sanity_checks"
    /\ taus = <<TauDen, TauDen, 2 * TauDen>>
    /\ res.status = "Err"

\* C2 as stated: the error kind follows from the kinds of violation the axis
\* contains, wherever they sit: NegativeTauValue if any element is < 0,
\* NullTauValue if any is = 0, InvalidTauShape if any is <= its predecessor.
C2_KindByContent ==
    op = "tau_sanity_checks" =>
        /\ (\E i \in 1..Len(taus) : taus[i] < 0) => res.error = "NegativeTauValue"
        /\ (\E i \in 1..Len(taus) : taus[i] = 0) => res.error = "NullTauValue"
        /\ (\E i \in 2..Len(taus) : taus[i] <= taus[i-1]) => res.error = "InvalidTauShape"

\* C2 amended: the call fails exactly when some element breaks the invariant,
\* and the error is that of the first such element in axis order:
\* NegativeTauValue if it is < 0, else NullTauValue if it is = 0, else
\* InvalidTauShape.
C2_KindOfFirstViolation ==
    op = "tau_sanity_checks" =>
        IF AxisValid(taus) THEN res.status = "Ok"
        ELSE res.status = "Err" /\ res.error = KindOf(taus, FirstBad(taus))

\* an axis with a non-increasing step before a negative element
C2_Witness ==
    /\ op = "tau_sanity_checks"
    /\ Len(taus) = 3
    /\ taus[1] > 0 /\ taus[2] > 0 /\ taus[2] <= taus[1] /\ taus[3] < 0
    /\ res.error = "InvalidTauShape"

\* C3: on an axis that fails validation deviation, variance and
\* three_cornered_hat return the tau axis error of the validator and no value
\* or error bar, whatever the data.
C3_InvalidAxisAbortsCall ==
    (op \in {"deviation", "variance", "three_cornered_hat"} /\ ~AxisValid(taus)) =>
        /\ res.status = "Err"
        /\ res.error = KindOf(taus, FirstBad(taus))
        /\ op \in {"deviation", "variance"} => res.devs = <<>> /\ res.errs = <<>>
        /\ op = "three_cornered_hat" =>
              /\ res.a = <<>> /\ res.b = <<>> /\ res.c = <<>>
              /\ res.err_a = <<>> /\ res.err_b = <<>> /\ res.err_c = <<>>

\* three_cornered_hat on an axis whose first tau is feasible for all three
\* sequences and whose second is not above it
C3_Witness ==
    /\ op = "three_cornered_hat"
    /\ Len(data) >= 3 /\ Len(data_bc) >= 3 /\ Len(data_ca) >= 3
    /\ Len(taus) = 2 /\ taus[1] = TauDen /\ taus[2] <= taus[1]
    /\ res.status = "Err"

\* floor(tau) of a tau > 0, and the feasibility bound n <= (N-1)/2
FloorTau(h) == h \div TauDen

Feasible(N, n) == n <= (N - 1) \div 2

RECURSIVE SumOver(_, _)
SumOver(f, S) ==
    IF S = {} THEN 0
    ELSE LET i == CHOOSE j \in S : TRUE IN f[i] + SumOver(f, S \ {i})

CeilDiv(a, b) == (a + b - 1) \div b

\* C4 as stated: calc_adev and calc_mdev return an estimate when
\* n <= (N-1)/2 and NotEnoughSamplesError otherwise.
C4_FeasibilityBoundary ==
    op \in {"calc_adev", "calc_mdev"} =>
        IF Feasible(Len(data), FloorTau(taus[1]))
        THEN res.status = "Ok"
        ELSE res.status = "Err" /\ res.error = "NotEnoughSamplesError"

\* the sequence the estimators of the engine run on
Preprocessed == IF is_fractional THEN fractional_integral(data).v ELSE data

\* the estimate of tau i of the axis, by the estimator of `calc`
EstimateOf(i, oc) ==
    IF calc = "Allan" THEN calc_adev(Preprocessed, taus[i], 1, overlapping, oc)
    ELSE IF calc = "Modified" THEN calc_mdev(Preprocessed, taus[i], 1, oc)
    ELSE calc_tdev(Preprocessed, taus[i], 1, oc)

\* the number of leading taus of the axis whose estimate succeeds
LeadingFeasible(oc) ==
    Cardinality({k \in 1..Len(taus) : \A i \in 1..k : EstimateOf(i, oc).status = "Ok"})

\* C5: what deviation returns on a valid axis is the estimates of the leading
\* taus whose estimate succeeds, in axis order: values and errors have that
\* length, element i is the estimate of taus[i], and no later tau contributes.
C5_FeasiblePrefix ==
    (op = "deviation" /\ res.status = "Ok") =>
        \E oc \in BOOLEAN :
            LET L == LeadingFeasible(oc) IN
            /\ Len(res.devs) = L /\ Len(res.errs) = L
            /\ \A i \in 1..L : /\ res.devs[i] = EstimateOf(i, oc).dev
                               /\ res.errs[i] = EstimateOf(i, oc).err

\* a Time deviation truncated after its first tau
C5_Witness ==
    /\ op = "deviation" /\ res.status = "Ok"
    /\ calc = "Time"
    /\ Len(taus) = 2 /\ Len(res.devs) = 1 /\ Len(res.errs) = 1
    /\ res.devs[1].num > 0

\* C6 as stated: on a valid axis deviation and variance return successfully,
\* whatever the data.
C6_ValidAxisAlwaysReturns ==
    (op \in {"deviation", "variance"} /\ AxisValid(taus)) => res.status = "Ok"

\* the terms of the Allan sum: i = 0, stride, 2*stride, ... while i + 2n < N
AdevTerms(N, n, stride) == {i \in 0..(N-1) : i + 2 * n < N /\ i % stride = 0}

SecondDiff(x, n, i) == At(x, i) - 2 * At(x, i + n) + At(x, i + 2 * n)

AdevSum(x, n, stride) ==
    SumOver([i \in AdevTerms(Len(x), n, stride) |-> SecondDiff(x, n, i) * SecondDiff(x, n, i)],
            AdevTerms(Len(x), n, stride))

\* C7: an estimate of calc_adev for a feasible n was accumulated over the k
\* terms i = 0, stride, ... with i + 2n < N; k is N-2n when overlapping and
\* ceil((N-2n)/n) otherwise, k >= 1, and dev^2 = S / (2k) / tau^2.  (With a
\* stride of 0, n = 0 and not overlapping, the terms and ceil((N-2n)/n) are
\* not defined.)
C7_AllanEstimate ==
    (/\ op = "calc_adev" /\ res.status = "Ok"
     /\ Feasible(Len(data), FloorTau(taus[1]))
     /\ (overlapping \/ FloorTau(taus[1]) >= 1)) =>
        LET n == FloorTau(taus[1])
            N == Len(data)
            stride == IF overlapping THEN 1 ELSE n
            k == Cardinality(AdevTerms(N, n, stride))
            S == AdevSum(data, n, stride)
        IN  /\ res.sum = S /\ res.n = k
            /\ k >= 1
            /\ k = IF overlapping THEN N - 2 * n ELSE CeilDiv(N - 2 * n, n)
            /\ Square(res.dev) =
                 Val(RDiv(RDiv(Rat(S, 2 * k), TauVal(taus[1])), TauVal(taus[1])))

\* a non-overlapping estimate over two windows, two samples apart, of a
\* non-zero sum, at a tau that is not a whole number of samples
C7_Witness ==
    /\ op = "calc_adev" /\ res.status = "Ok"
    /\ ~overlapping /\ taus[1] = 2 * TauDen + 1 /\ res.n = 2 /\ res.sum > 0

ThirdDiff(x, n, i) ==
    At(x, i + 3 * n) - 3 * At(x, i + 2 * n) + 3 * At(x, i + n) - At(x, i)

\* the seed of the Modified sum and its value after j running steps
MdevSeed(x, n) ==
    SumOver([i \in {j \in 0..(n-1) : j + 2 * n < Len(x)} |-> SecondDiff(x, n, i)],
            {j \in 0..(n-1) : j + 2 * n < Len(x)})

MdevV(x, n, j) ==
    MdevSeed(x, n) + SumOver([i \in 0..(j-1) |-> ThirdDiff(x, n, i)], 0..(j-1))

MdevSteps(x, n) == Cardinality({i \in 0..(Len(x)-1) : i + 3 * n < Len(x)})

MdevSum(x, n) ==
    SumOver([j \in 0..MdevSteps(x, n) |-> MdevV(x, n, j) * MdevV(x, n, j)],
            0..MdevSteps(x, n))

\* C8 as stated: an estimate of calc_mdev for a feasible n has S and k of the
\* two stages and dev^2 = S / (2k) / tau^2.
C8_ModifiedEstimateTauSquared ==
    (op = "calc_mdev" /\ res.status = "Ok" /\ Feasible(Len(data), FloorTau(taus[1]))) =>
        LET n == FloorTau(taus[1])
            k == MdevSteps(data, n) + 1
            S == MdevSum(data, n)
        IN  /\ res.sum = S /\ res.n = k
            /\ Square(res.dev) =
                 Val(RDiv(RDiv(Rat(S, 2 * k), TauVal(taus[1])), TauVal(taus[1])))

\* C8 amended: an estimate of calc_mdev for a feasible n has S and k of the
\* two stages and dev^2 = S / (2k) / tau^4: the sum is divided by tau^2 under
\* the square root and the root by tau again.
C8_ModifiedEstimateTauFourth ==
    (op = "calc_mdev" /\ res.status = "Ok" /\ Feasible(Len(data), FloorTau(taus[1]))) =>
        LET n == FloorTau(taus[1])
            k == MdevSteps(data, n) + 1
            S == MdevSum(data, n)
            t2 == RMul(TauVal(taus[1]), TauVal(taus[1]))
        IN  /\ res.sum = S /\ res.n = k
            /\ Square(res.dev) = Val(RDiv(RDiv(Rat(S, 2 * k), t2), t2))

\* an estimate at tau = 2 with a seed of two terms and two running steps, of
\* a non-zero sum
C8_Witness ==
    /\ op = "calc_mdev" /\ res.status = "Ok"
    /\ taus[1] = 2 * TauDen /\ res.n = 3 /\ res.sum > 0

\* C9: calc_tdev fails exactly as calc_mdev fails on the same inputs; when
\* they succeed 3 * tdev^2 = mdev^2 * tau^2 and the error bar is that of
\* calc_mdev.
C9_TimeFromModified ==
    op = "calc_tdev" =>
        \E oc \in BOOLEAN :
            LET m == calc_mdev(data, taus[1], 1, oc) IN
            /\ res.status = m.status /\ res.error = m.error
            /\ res.status = "Ok" =>
                 /\ RMul(RInt(3), RatOf(Square(res.dev))) =
                      RMul(RatOf(Square(m.dev)), RMul(TauVal(taus[1]), TauVal(taus[1])))
                 /\ res.err = m.err

\* a Time estimate at a tau other than 1, of a non-zero deviation
C9_Witness ==
    /\ op = "calc_tdev" /\ res.status = "Ok"
    /\ taus[1] > TauDen /\ res.dev.num > 0

\* C10: variance fails exactly as deviation fails on the same inputs, and
\* otherwise returns as many values, each the square of the deviation.
C10_VarianceSquaresDeviation ==
    op = "variance" =>
        \E oc \in BOOLEAN :
            LET dv == deviation(data, taus, calc, 1, is_fractional, overlapping, oc) IN
            /\ res.status = dv.status /\ res.error = dv.error
            /\ res.status = "Ok" =>
                 /\ Len(res.devs) = Len(dv.devs)
                 /\ \A i \in 1..Len(dv.devs) :
                      /\ ~res.devs[i].root
                      /\ IF dv.devs[i].root
                         THEN RatOf(res.devs[i]) = RatOf(dv.devs[i])
                         ELSE RatOf(res.devs[i]) = RMul(RatOf(dv.devs[i]), RatOf(dv.devs[i]))

\* a variance of two taus whose deviations are irrational or not 0 or 1
C10_Witness ==
    /\ op = "variance" /\ res.status = "Ok"
    /\ Len(res.devs) = 2
    /\ res.devs[1].num > 0 /\ res.devs[1].num # res.devs[1].den
    /\ res.devs[2].num > 0

\* C11 as stated: in what deviation and variance return for the Allan and
\* Modified kinds, each error bar is the returned estimate of the same tau
\* divided by sqrt(k): err^2 * k = estimate^2, k the number of accumulated
\* terms of that tau.
C11_ErrorBarOfReturnedEstimate ==
    (op \in {"deviation", "variance"} /\ res.status = "Ok" /\ calc \in {"Allan", "Modified"}) =>
        \E oc \in BOOLEAN :
            \A i \in 1..Len(res.devs) :
                RMul(RatOf(Square(res.errs[i])), RInt(EstimateOf(i, oc).n)) =
                    RatOf(Square(res.devs[i]))

RECURSIVE Pow(_, _)
Pow(b, e) == IF e = 0 THEN 1 ELSE b * Pow(b, e - 1)

\* C12: for tau_0 > 0 the Octave (ratio 2) and Decade (ratio 10) axes are
\* exactly the terms tau_0 * ratio^i, i = 0, 1, ..., that are <= tau_m: every
\* element is such a term, in order, and the next term is above tau_m.
C12_GeometricAxis ==
    (op = "tau_generator" /\ axis \in {"Octave", "Decade"} /\ tau_0 > 0) =>
        LET ratio == IF axis = "Octave" THEN 2 ELSE 10
            L == Len(res.v)
        IN  /\ res.status = "Ok"
            /\ \A i \in 1..L : res.v[i] = tau_0 * Pow(ratio, i - 1) /\ res.v[i] <= tau_m
            /\ tau_0 * Pow(ratio, L) > tau_m

\* Octave(1, 65536): 17 elements, the last one tau_m itself
C12_Witness ==
    /\ op = "tau_generator" /\ axis = "Octave"
    /\ tau_0 = TauDen /\ tau_m = 65536 * TauDen
    /\ Len(res.v) = 17 /\ res.v[17] = tau_m

\* the integers k with tau_0 <= k < tau_m, for taus given as numerators
IntegersOfRange(lo, hi) ==
    {k \in (-2)..(hi \div TauDen + 1) : lo <= k * TauDen /\ k * TauDen < hi}

\* C13 as stated: the All axis is every integer of [tau_0, tau_m), in
\* increasing order.
C13_AllIntegersOfRange ==
    (op = "tau_generator" /\ axis = "All") =>
        /\ res.status = "Ok"
        /\ Len(res.v) = Cardinality(IntegersOfRange(tau_0, tau_m))
        /\ \A i \in 1..Len(res.v) :
              /\ \E k \in IntegersOfRange(tau_0, tau_m) : res.v[i] = k * TauDen
              /\ i > 1 => res.v[i] > res.v[i-1]

\* the whole part of a bound of the range, a bound below zero counting as 0
WholePart(h) ==
    CHOOSE k \in 0..(Abs(h) + 1) :
        IF h < 0 THEN k = 0 ELSE k * TauDen <= h /\ h < (k + 1) * TauDen

\* C13 amended: the All axis is every integer from a up to, not including, b,
\* in increasing order, where a and b are the whole parts of tau_0 and tau_m
\* and a negative bound counts as 0: element i is a + i, the length is b - a
\* (0 when b <= a), and b is never included.
C13_AllIntegersOfTruncatedRange ==
    (op = "tau_generator" /\ axis = "All") =>
        LET a == WholePart(tau_0)
            b == WholePart(tau_m)
        IN  /\ res.status = "Ok"
            /\ Len(res.v) = IF b <= a THEN 0 ELSE b - a
            /\ \A i \in 1..Len(res.v) : res.v[i] = (a + i - 1) * TauDen /\ res.v[i] < b * TauDen

\* an All axis from a negative tau_0 to a tau_m that is not a whole number
C13_Witness ==
    /\ op = "tau_generator" /\ axis = "All"
    /\ tau_0 < 0 /\ tau_m > 2 * TauDen /\ tau_m % TauDen # 0
    /\ Len(res.v) >= 3 /\ res.v[1] = 0

\* C14 as stated: tau_generator returns a sequence for every axis kind and
\* every (tau_0, tau_m).
C14_GeneratorAlwaysReturns ==
    op = "tau_generator" => res.status = "Ok"

Zero == Val(RInt(0))

C16_IntegralScaledThroughout ==
    (op = "fractionnal_integral" /\ Len(data) > 0) =>
        LET dt == Rat(1, rate) IN
        /\ res.status = "Ok"
        /\ Len(res.v) = Len(data)
        /\ res.v[1] = RMul(RInt(data[1]), dt)
        /\ \A i \in 2..Len(data) : res.v[i] = RMul(RAdd(res.v[i-1], RInt(data[i])), dt)

\* C17: the first difference of the running sum of a non-empty x (diff of
\* cumsum, or derivative of fractionnal_integral at the sample rate 1) has
\* len(x) - 1 elements, and element i is x[i+1].
C17_DiffOfCumsum ==
    (/\ Len(data) > 0
     /\ \/ op = "diff" /\ res.after = "cumsum"
        \/ op = "derivative" /\ res.after = "fractionnal_integral" /\ rate = 1) =>
        /\ res.status = "Ok"
        /\ Len(res.v) = Len(data) - 1
        /\ \A i \in 1..(Len(data) - 1) : res.v[i] = RInt(data[i + 1])

\* differencing the integral [1,2,3,4] of [1,1,1,1] gave [1,1,1]
C17_Witness ==
    /\ op = "diff" /\ res.after = "cumsum"
    /\ data = <<1, 1, 1, 1>>
    /\ res.v = <<RInt(1), RInt(1), RInt(1)>>

\* the variance sequence of one pairwise measurement, as three_cornered_hat
\* asks for it
PairVariance(d, oc) == variance(d, taus, calc, 1, is_fractional, overlapping, oc)

\* 0.5 * (x - y + z) of three variances
Combined(x, y, z) == RMul(Rat(1, 2), RAdd(RSub(RatOf(x), RatOf(y)), RatOf(z)))

\* the deviation dv is a square root of the variance v
IsRootOf(dv, v) == Square(dv) = Val(v)

\* C18 as stated: each returned deviation squares to the combination of the
\* three pairwise variances of its index: dev_a^2 = 0.5*(var_ab - var_bc +
\* var_ca), dev_b^2 = 0.5*(var_bc - var_ca + var_ab), dev_c^2 = 0.5*(var_ca -
\* var_ab + var_bc).
C18_HatSquaresToCombination ==
    (op = "three_cornered_hat" /\ res.status = "Ok") =>
        \E oc \in BOOLEAN :
            LET ab == PairVariance(data, oc).devs
                bc == PairVariance(data_bc, oc).devs
                ca == PairVariance(data_ca, oc).devs
            IN  \A i \in 1..Len(res.a) :
                    /\ IsRootOf(res.a[i], Combined(ab[i], bc[i], ca[i]))
                    /\ IsRootOf(res.b[i], Combined(bc[i], ca[i], ab[i]))
                    /\ IsRootOf(res.c[i], Combined(ca[i], ab[i], bc[i]))

\* dv is the f64 square root of v: NaN when v < 0
IsSqrtOf(dv, v) == IF v.num < 0 THEN IsNaN(dv) ELSE ~IsNaN(dv) /\ IsRootOf(dv, v)

\* C18 amended: for each index of var_ab the returned deviations are the f64
\* square roots of the three combinations: a deviation squares to its
\* combination when that is >= 0 and is NaN when it is negative; two
\* deviations that are not NaN have squares adding up to the pairwise
\* variance of their clocks.
C18_HatRootsOfCombination ==
    (op = "three_cornered_hat" /\ res.status = "Ok") =>
        \E oc \in BOOLEAN :
            LET ab == PairVariance(data, oc).devs
                bc == PairVariance(data_bc, oc).devs
                ca == PairVariance(data_ca, oc).devs
            IN  /\ Len(res.a) = Len(ab) /\ Len(res.b) = Len(ab) /\ Len(res.c) = Len(ab)
                /\ \A i \in 1..Len(ab) :
                    /\ IsSqrtOf(res.a[i], Combined(ab[i], bc[i], ca[i]))
                    /\ IsSqrtOf(res.b[i], Combined(bc[i], ca[i], ab[i]))
                    /\ IsSqrtOf(res.c[i], Combined(ca[i], ab[i], bc[i]))
                    /\ (~IsNaN(res.a[i]) /\ ~IsNaN(res.b[i])) =>
                          RAdd(RatOf(Square(res.a[i])), RatOf(Square(res.b[i]))) = RatOf(ab[i])
                    /\ (~IsNaN(res.b[i]) /\ ~IsNaN(res.c[i])) =>
                          RAdd(RatOf(Square(res.b[i])), RatOf(Square(res.c[i]))) = RatOf(bc[i])
                    /\ (~IsNaN(res.c[i]) /\ ~IsNaN(res.a[i])) =>
                          RAdd(RatOf(Square(res.c[i])), RatOf(Square(res.a[i]))) = RatOf(ca[i])

\* the documented case: pairwise variances 4, 9, 9 gave 2, 2, 7
C18_Witness ==
    /\ op = "three_cornered_hat" /\ res.status = "Ok"
    /\ data = <<0, 0, 4, 8>> /\ data_bc = <<0, 0, 6, 12>> /\ data_ca = <<0, 0, 6, 12>>
    /\ calc = "Allan" /\ overlapping /\ ~is_fractional /\ taus = <<TauDen>>
    /\ IsRootOf(res.a[1], RInt(2)) /\ IsRootOf(res.b[1], RInt(2)) /\ IsRootOf(res.c[1], RInt(7))

C20_DeviationTerminates == <>(frame.pc = "done")

\* C21: on a core built by new(tau0) with tau0 >= 1 and never reset, after
\* any pushes: the ladder taus is non-empty and starts at tau0, each later
\* element is exactly twice the one before it, every element but the last
\* satisfies 2*tau + 1 <= buffer length, the buffer is the pushed samples in
\* order, devs is empty and get yields no estimate, and a push or push_n
\* adds at most one tau.
C21_DoublingLadder ==
    (core.status # "none" /\ core.tau0 >= 1 /\ ~res.was_reset) =>
        /\ Len(core.taus) >= 1
        /\ core.taus[1] = core.tau0
        /\ \A j \in 1..(Len(core.taus) - 1) :
              /\ core.taus[j + 1] - core.taus[j] = core.taus[j]
              /\ core.taus[j] < Len(core.buffer) - core.taus[j]
        /\ core.buffer = data
        /\ core.devs = <<>>
        /\ (op = "get" => res.out[2] = <<>> /\ res.out[3] = <<>>)
        /\ (op \in {"push", "push_n"} => Len(core.taus) <= res.taus_before + 1)

\* C22: reset returns the core to the state new(tau0) builds (empty buffer,
\* taus = [tau0], empty devs), and a push or push_n made on a core that was
\* reset completes without a panic.
C22_ResetRestoresInitialState ==
    /\ (op = "reset" => core = [new(core.tau0) EXCEPT !.oc = core.oc])
    /\ ((res.was_reset /\ op \in {"push", "push_n"}) => core.status = "ok")

====
